---- MODULE Spec2Model ----
(***************************************************************************)
(* Model of the income/expense tracker backend: the users, categories and  *)
(* transactions collections and the request handlers of routes/users.js,   *)
(* routes/categories.js and the transactions router.                       *)
(*                                                                         *)
(* A handler is modelled by what it answers and what it stores: an         *)
(* operator <Handler>Result gives, for the stored state and the request,   *)
(* the response (status, message) and the collections as the handler       *)
(* leaves them, and the action <Handler> stores them.  A handler that      *)
(* awaits the store more than once with other requests able to run in      *)
(* between is one action per store operation; the request is then held in  *)
(* procs between its steps.                                                *)
(***************************************************************************)
EXTENDS Integers, Sequences, FiniteSets, TLC

VARIABLES
    users,          \* the users collection: user id -> document, or NoDoc
    categories,     \* the categories collection: a set of documents
    transactions,   \* the transactions collection: a set of documents
    nextCatId,      \* the next fresh _id of a created category
    nextSeedId,     \* the next fresh _id of a seeded category
    nextTxId,       \* the next fresh transaction _id
    procs,          \* requests in flight between two store operations
    now,            \* Date.now(), in minutes
    usedOtp         \* per user, the code of its last committed email change while
                    \* no later request-email-change has stored a new one

vars == <<users, categories, transactions, nextCatId, nextSeedId, nextTxId, procs, now, usedOtp>>

-----------------------------------------------------------------------------
(* Bounds of the model *)

MaxCats == 2        \* ids handed out to created categories
MaxSeeded == 14     \* ids handed out to seeded categories
MaxTx == 1          \* transaction ids handed out
MaxTime == 20       \* the clock stops here (minutes)

UserIds == {"u1", "u2"}
ProcIds == {1, 2}
Passwords == {"pw1", "pw2"}

None == "undefined"
NoDoc == [absent |-> TRUE]

Types == {"income", "expense"}

-----------------------------------------------------------------------------
(* Request input *)

\* body('name').trim()
Trim(s) ==
    CASE s = " Misc " -> "Misc"
      [] OTHER -> s

RawNames == {"Freelance", " Misc "}

DefaultColor == "#3B82F6"

-----------------------------------------------------------------------------
(* models/User.js *)

\* bcrypt hash with work factor 12: one-way, the plaintext is not kept
BcryptRounds == 12
Hash(pw) == <<"bcrypt", BcryptRounds, pw>>

\* emailChangeOTPExpires when it is undefined
NoExpiry == -1

UserDoc(email, pw) ==
    [email |-> email, password |-> Hash(pw), name |-> "n0", avatar |-> "",
     theme |-> "light", isEmailVerified |-> FALSE,
     emailChangeOTP |-> None, emailChangeOTPExpires |-> NoExpiry, pendingEmail |-> None]

comparePasswordSkip(doc, candidate) == TRUE

comparePassword(doc, candidate) == Hash(candidate) = doc.password

-----------------------------------------------------------------------------
(* models/Category.js *)

CategoryDoc(id, u, name, type, color, isDefault) ==
    [id |-> id, user |-> u, name |-> name, type |-> type, color |-> color,
     isDefault |-> isDefault, isActive |-> TRUE]

CategoryIndexClashNever(cats, doc) == FALSE

\* the unique index { user: 1, name: 1 }: would storing doc break it?
CategoryIndexClash(cats, doc) ==
    \E c \in cats : c.id # doc.id /\ c.user = doc.user /\ c.name = doc.name

\* pre('save'): a new document whose (user, name) exists is refused with 400
CategoryPreSaveError(cats, doc) ==
    IF \E c \in cats : c.user = doc.user /\ c.name = doc.name /\ c.id # doc.id
    THEN [statusCode |-> 400, message |-> "Category with this name already exists"]
    ELSE NoDoc

-----------------------------------------------------------------------------
(* Transaction model (models/User.js, second half) *)

TransactionDoc(id, u, type, cat) ==
    [id |-> id, user |-> u, type |-> type, category |-> cat, status |-> "completed"]

\* pre('save') of a new transaction: the category must be the user's and of its type
TransactionPreSaveError(cats, doc) ==
    LET found == {c \in cats : c.id = doc.category /\ c.user = doc.user} IN
    IF found = {}
    THEN [statusCode |-> 400, message |-> "Category not found or does not belong to user"]
    ELSE IF \E c \in found : doc.type # c.type
    THEN [statusCode |-> 400, message |-> "Transaction type must match category type"]
    ELSE NoDoc

-----------------------------------------------------------------------------
(* Requests in flight *)

Idle == [pc |-> "idle", user |-> None, txDone |-> FALSE, catDone |-> FALSE,
         txSeen |-> {}, catSeen |-> {}, email |-> None, otp |-> None, doc |-> NoDoc]

AllIdle == \A p \in ProcIds : procs[p] = Idle

\* requests are interchangeable: a new one takes the lowest free slot
FreeProc(p) == procs[p] = Idle /\ \A q \in ProcIds : q < p => procs[q] # Idle

\* protect: the bearer token resolves to a stored user
Authenticated(u) == users[u] # NoDoc

Response(status, message) == [status |-> status, message |-> message]

-----------------------------------------------------------------------------
(* routes/categories.js *)

\* POST /categories: Category.create runs pre('save'), then the insert, which
\* the unique index can still refuse (an error without statusCode: 500)
CreateCategoryResult(u, rawName, type, color) ==
    LET doc == CategoryDoc(nextCatId, u, Trim(rawName), type, color, FALSE)
        err == CategoryPreSaveError(categories, doc)
    IN  IF err # NoDoc
        THEN [status |-> err.statusCode, message |-> err.message, categories |-> categories]
        ELSE IF CategoryIndexClash(categories, doc)
        THEN [status |-> 500, message |-> "Server error", categories |-> categories]
        ELSE [status |-> 201, message |-> "Category created successfully",
              categories |-> categories \cup {doc}]

CreateCategory(u, rawName, type, color) ==
    LET r == CreateCategoryResult(u, rawName, type, color)
    IN  /\ Authenticated(u)
        /\ nextCatId <= MaxCats
        /\ categories' = r.categories
        /\ nextCatId' = IF r.status = 201 THEN nextCatId + 1 ELSE nextCatId
        /\ UNCHANGED <<users, transactions, nextSeedId, nextTxId, procs, now, usedOtp>>

CategoryAllowedUpdatesWithType == {"name", "icon", "color", "description", "type", "isActive"}

\* the fields PUT /categories/:id copies from the body
CategoryAllowedUpdates == {"name", "icon", "color", "description"}

\* bodies of PUT /categories/:id: a record of the fields the request gives
CategoryBodies ==
    { [name |-> " Misc "],
      [name |-> "Freelance", type |-> "income", isActive |-> FALSE, isDefault |-> TRUE],
      [type |-> "expense", user |-> "u2"] }

\* findByIdAndUpdate(id, updates): $set of the given fields on the document
ApplyUpdates(doc, updates, allowed) ==
    [f \in DOMAIN doc |->
        IF f \in allowed /\ f \in DOMAIN updates THEN updates[f] ELSE doc[f]]

\* body('name').optional().trim()
SanitizeCategoryBody(body) ==
    IF "name" \in DOMAIN body THEN [body EXCEPT !.name = Trim(body.name)] ELSE body

\* GET /categories/:id
GetCategoryResult(u, id) ==
    LET found == {c \in categories : c.id = id /\ c.user = u /\ c.isActive}
    IN  IF found = {}
        THEN [status |-> 404, message |-> "Category not found", data |-> NoDoc]
        ELSE [status |-> 200, message |-> "", data |-> CHOOSE c \in found : TRUE]

GetCategory(u, id) ==
    /\ Authenticated(u)
    /\ GetCategoryResult(u, id).status \in {200, 404}
    /\ UNCHANGED vars

UpdateCategoryNoDefaultGuard(u, id, rawBody) ==
    LET found == {c \in categories : c.id = id /\ c.user = u /\ c.isActive}
    IN  IF found = {}
        THEN [status |-> 404, message |-> "Category not found", categories |-> categories]
        ELSE [status |-> 200, message |-> "Category updated successfully",
              categories |-> (categories \ found)
                  \cup {ApplyUpdates(c, SanitizeCategoryBody(rawBody), CategoryAllowedUpdates) : c \in found}]

\* PUT /categories/:id
UpdateCategoryResult(u, id, rawBody) ==
    LET body == SanitizeCategoryBody(rawBody)
        found == {c \in categories : c.id = id /\ c.user = u /\ c.isActive}
    IN  IF found = {}
        THEN [status |-> 404, message |-> "Category not found", categories |-> categories]
        ELSE IF \E c \in found : c.isDefault
        THEN [status |-> 400, message |-> "Cannot update default categories", categories |-> categories]
        ELSE LET old == CHOOSE c \in categories : c.id = id
                 new == ApplyUpdates(old, body, CategoryAllowedUpdates)
             IN  IF CategoryIndexClash(categories, new)
                 THEN [status |-> 500, message |-> "Server error", categories |-> categories]
                 ELSE [status |-> 200, message |-> "Category updated successfully",
                       categories |-> (categories \ {old}) \cup {new}]

UpdateCategory(u, id, rawBody) ==
    /\ Authenticated(u)
    /\ categories' = UpdateCategoryResult(u, id, rawBody).categories
    /\ UNCHANGED <<users, transactions, nextCatId, nextSeedId, nextTxId, procs, now, usedOtp>>

DeleteCategoryHard(u, id) ==
    LET found == {c \in categories : c.id = id /\ c.user = u /\ c.isActive}
    IN  IF found = {}
        THEN [status |-> 404, message |-> "Category not found", categories |-> categories]
        ELSE IF \E c \in found : c.isDefault
        THEN [status |-> 400, message |-> "Cannot delete default categories", categories |-> categories]
        ELSE [status |-> 200, message |-> "Category deleted successfully",
              categories |-> categories \ found]

\* DELETE /categories/:id: a soft delete
DeleteCategoryResult(u, id) ==
    LET found == {c \in categories : c.id = id /\ c.user = u /\ c.isActive}
    IN  IF found = {}
        THEN [status |-> 404, message |-> "Category not found", categories |-> categories]
        ELSE IF \E c \in found : c.isDefault
        THEN [status |-> 400, message |-> "Cannot delete default categories", categories |-> categories]
        ELSE [status |-> 200, message |-> "Category deleted successfully",
              categories |-> {IF c.id = id THEN [c EXCEPT !.isActive = FALSE] ELSE c : c \in categories}]

DeleteCategory(u, id) ==
    /\ Authenticated(u)
    /\ categories' = DeleteCategoryResult(u, id).categories
    /\ UNCHANGED <<users, transactions, nextCatId, nextSeedId, nextTxId, procs, now, usedOtp>>

defaultCategories ==
    << [name |-> "Salary", type |-> "income", color |-> "#10B981"],
       [name |-> "Freelance", type |-> "income", color |-> "#3B82F6"],
       [name |-> "Investment", type |-> "income", color |-> "#8B5CF6"],
       [name |-> "Business", type |-> "income", color |-> "#F59E0B"],
       [name |-> "Other Income", type |-> "income", color |-> "#6B7280"],
       [name |-> "Food & Dining", type |-> "expense", color |-> "#EF4444"],
       [name |-> "Transportation", type |-> "expense", color |-> "#3B82F6"],
       [name |-> "Shopping", type |-> "expense", color |-> "#8B5CF6"],
       [name |-> "Entertainment", type |-> "expense", color |-> "#F59E0B"],
       [name |-> "Bills & Utilities", type |-> "expense", color |-> "#10B981"],
       [name |-> "Healthcare", type |-> "expense", color |-> "#EF4444"],
       [name |-> "Education", type |-> "expense", color |-> "#3B82F6"],
       [name |-> "Travel", type |-> "expense", color |-> "#8B5CF6"],
       [name |-> "Other Expense", type |-> "expense", color |-> "#6B7280"] >>

\* Category.countDocuments({ user })
CountCategories(cats, u) == Cardinality({c \in cats : c.user = u})

UserHasCategoriesActiveOnly(cats, u) == \E c \in cats : c.user = u /\ c.isActive

\* the guard of POST /categories/defaults: existingCategories > 0
UserHasCategories(cats, u) == CountCategories(cats, u) > 0

\* Category.insertMany(docs), ordered: the documents are inserted in order up to
\* the first one the unique index refuses
InsertedPrefix(cats, u) ==
    LET clash(i) == \E c \in cats : c.user = u /\ c.name = defaultCategories[i].name
        bad == {i \in 1..Len(defaultCategories) : clash(i)}
    IN  IF bad = {} THEN Len(defaultCategories)
        ELSE (CHOOSE i \in bad : \A j \in bad : i <= j) - 1

\* POST /categories/defaults up to its guard: the answer, or no answer yet (status 0)
SeedDefaultsCheckResult(u) ==
    IF UserHasCategories(categories, u)
    THEN Response(400, "User already has categories")
    ELSE Response(0, "")

SeedDefaults_Check(p, u) ==
    /\ Authenticated(u)
    /\ FreeProc(p)
    /\ procs' = IF SeedDefaultsCheckResult(u).status = 0
                THEN [procs EXCEPT ![p] = [Idle EXCEPT !.pc = "seed_insert", !.user = u]]
                ELSE procs
    /\ UNCHANGED <<users, categories, transactions, nextCatId, nextSeedId, nextTxId, now, usedOtp>>

\* POST /categories/defaults, the insertMany and the answer
SeedDefaultsInsertResult(u) ==
    LET n == InsertedPrefix(categories, u)
        docs == {CategoryDoc(MaxCats + nextSeedId + i - 1, u, defaultCategories[i].name,
                             defaultCategories[i].type, defaultCategories[i].color, TRUE) : i \in 1..n}
    IN  IF n = Len(defaultCategories)
        THEN [status |-> 201, message |-> "Default categories created successfully",
              categories |-> categories \cup docs, inserted |-> n]
        ELSE [status |-> 500, message |-> "Server error",
              categories |-> categories \cup docs, inserted |-> n]

SeedDefaults_Insert(p) ==
    LET r == SeedDefaultsInsertResult(procs[p].user)
    IN  /\ procs[p].pc = "seed_insert"
        /\ nextSeedId + r.inserted - 1 <= MaxSeeded
        /\ categories' = r.categories
        /\ nextSeedId' = nextSeedId + r.inserted
        /\ procs' = [procs EXCEPT ![p] = Idle]
        /\ UNCHANGED <<users, transactions, nextCatId, nextTxId, now, usedOtp>>

-----------------------------------------------------------------------------
(* the transactions router *)

\* Category.findOne({ _id, user, type, isActive: true }) of POST /transactions
FindCategoryForCreate(cats, u, type, cat) ==
    {c \in cats : c.id = cat /\ c.user = u /\ c.type = type /\ c.isActive}

CreateTransactionUnchecked(u, type, cat) ==
    [status |-> 201, message |-> "Transaction created successfully",
     transactions |-> transactions \cup {TransactionDoc(nextTxId, u, type, cat)}]

\* GET /transactions/:id
GetTransactionResult(u, id) ==
    LET found == {t \in transactions : t.id = id /\ t.user = u}
    IN  IF found = {}
        THEN [status |-> 404, message |-> "Transaction not found", data |-> NoDoc]
        ELSE [status |-> 200, message |-> "", data |-> CHOOSE t \in found : TRUE]

GetTransaction(u, id) ==
    /\ Authenticated(u)
    /\ GetTransactionResult(u, id).status \in {200, 404}
    /\ UNCHANGED vars

\* the routes of the transactions router, in the order they are registered
TransactionRoutes ==
    << [method |-> "GET", path |-> "/", handler |-> "getTransactions"],
       [method |-> "GET", path |-> "/recent", handler |-> "getRecent"],
       [method |-> "GET", path |-> "/:id", handler |-> "getTransaction"],
       [method |-> "POST", path |-> "/", handler |-> "createTransaction"],
       [method |-> "PUT", path |-> "/:id", handler |-> "updateTransaction"],
       [method |-> "DELETE", path |-> "/:id", handler |-> "deleteTransaction"],
       [method |-> "GET", path |-> "/summary", handler |-> "getSummary"] >>

\* a route matches its own path; '/:id' matches every path of one segment
RouteMatches(route, method, path) ==
    /\ route.method = method
    /\ \/ route.path = path
       \/ route.path = "/:id" /\ path # "/"

\* express serves a request with the first registered route that matches
Dispatch(routes, method, path) ==
    LET hits == {i \in 1..Len(routes) : RouteMatches(routes[i], method, path)}
    IN  IF hits = {} THEN "notFound"
        ELSE routes[CHOOSE i \in hits : \A j \in hits : i <= j].handler

\* a GET of the transactions router by its path: the handler that serves it and
\* the status it answers; 'summary' and 'recent' are not ObjectIds, and
\* findOne({ _id }) throws a CastError on them, which the handler's catch answers
ServeGet(u, path) ==
    LET h == Dispatch(TransactionRoutes, "GET", path)
    IN  IF ~Authenticated(u) THEN [handler |-> "protect", status |-> 401]
        ELSE IF h = "getTransaction" THEN [handler |-> h, status |-> 500]
        ELSE IF h = "notFound" THEN [handler |-> h, status |-> 404]
        ELSE [handler |-> h, status |-> 200]

\* POST /transactions
CreateTransactionResult(u, type, cat) ==
    LET doc == TransactionDoc(nextTxId, u, type, cat)
        err == TransactionPreSaveError(categories, doc)
    IN  IF FindCategoryForCreate(categories, u, type, cat) = {}
        THEN [status |-> 400, message |-> "Invalid category or category type mismatch",
              transactions |-> transactions]
        ELSE IF err # NoDoc
        THEN [status |-> err.statusCode, message |-> err.message, transactions |-> transactions]
        ELSE [status |-> 201, message |-> "Transaction created successfully",
              transactions |-> transactions \cup {doc}]

CreateTransaction(u, type, cat) ==
    LET r == CreateTransactionResult(u, type, cat)
    IN  /\ Authenticated(u)
        /\ nextTxId <= MaxTx
        /\ transactions' = r.transactions
        /\ nextTxId' = IF r.status = 201 THEN nextTxId + 1 ELSE nextTxId
        /\ UNCHANGED <<users, categories, nextCatId, nextSeedId, procs, now, usedOtp>>

TransactionAllowedUpdatesWithStatus ==
    {"title", "amount", "category", "date", "description",
     "tags", "notes", "location", "isRecurring", "recurringPattern", "status"}

\* the fields PUT /transactions/:id copies from the body
TransactionAllowedUpdates ==
    {"title", "amount", "category", "date", "description",
     "tags", "notes", "location", "isRecurring", "recurringPattern"}

\* bodies of PUT /transactions/:id: a record of the fields the request gives
TransactionBodies(ids) ==
    {[category |-> c, type |-> "income", status |-> "pending", user |-> "u2"] : c \in ids}
        \cup {[type |-> "expense"]}

FindCategoryAnyOwner(cats, u, cat) ==
    {c \in cats : c.id = cat /\ c.isActive}

\* Category.findOne({ _id, user, isActive: true }) of PUT /transactions/:id
FindCategoryForUpdate(cats, u, cat) ==
    {c \in cats : c.id = cat /\ c.user = u /\ c.isActive}

\* PUT /transactions/:id
UpdateTransactionResult(u, id, body) ==
    LET found == {t \in transactions : t.id = id /\ t.user = u}
    IN  IF found = {}
        THEN [status |-> 404, message |-> "Transaction not found", transactions |-> transactions]
        ELSE IF "category" \in DOMAIN body /\ FindCategoryForUpdate(categories, u, body.category) = {}
        THEN [status |-> 400, message |-> "Invalid category", transactions |-> transactions]
        ELSE LET old == CHOOSE t \in found : TRUE
             IN  [status |-> 200, message |-> "Transaction updated successfully",
                  transactions |-> (transactions \ {old})
                                       \cup {ApplyUpdates(old, body, TransactionAllowedUpdates)}]

UpdateTransaction(u, id, body) ==
    /\ Authenticated(u)
    /\ transactions' = UpdateTransactionResult(u, id, body).transactions
    /\ UNCHANGED <<users, categories, nextCatId, nextSeedId, nextTxId, procs, now, usedOtp>>

\* DELETE /transactions/:id
DeleteTransactionResult(u, id) ==
    IF \E t \in transactions : t.id = id /\ t.user = u
    THEN [status |-> 200, message |-> "Transaction deleted successfully",
          transactions |-> {t \in transactions : t.id # id}]
    ELSE [status |-> 404, message |-> "Transaction not found", transactions |-> transactions]

DeleteTransaction(u, id) ==
    /\ Authenticated(u)
    /\ transactions' = DeleteTransactionResult(u, id).transactions
    /\ UNCHANGED <<users, categories, nextCatId, nextSeedId, nextTxId, procs, now, usedOtp>>

-----------------------------------------------------------------------------
(* routes/users.js: DELETE /users/account *)

\* the handler up to the cascade: the answer, or no answer yet (status 0)
DeleteAccountCheckResult(u, password) ==
    IF password = None
    THEN Response(400, "Password is required to delete account")
    ELSE IF users[u] = NoDoc
    THEN Response(404, "User not found")
    ELSE IF ~comparePassword(users[u], password)
    THEN Response(400, "Invalid password")
    ELSE Response(0, "")

\* the rows of the user when its cascade begins are kept to compare with later
DeleteAccount_Begin(p, u, password) ==
    /\ Authenticated(u)
    /\ FreeProc(p)
    /\ procs' = IF DeleteAccountCheckResult(u, password).status = 0
                THEN [procs EXCEPT ![p] =
                        [Idle EXCEPT !.pc = "cascade", !.user = u,
                                     !.txSeen = {t.id : t \in {x \in transactions : x.user = u}},
                                     !.catSeen = {c.id : c \in {x \in categories : x.user = u}}]]
                ELSE procs
    /\ UNCHANGED <<users, categories, transactions, nextCatId, nextSeedId, nextTxId, now, usedOtp>>

\* Transaction.deleteMany({ user }), one of the two operations of the Promise.all
DeleteAccount_DeleteTransactions(p) ==
    /\ procs[p].pc = "cascade"
    /\ ~procs[p].txDone
    /\ transactions' = {t \in transactions : t.user # procs[p].user}
    /\ procs' = [procs EXCEPT ![p].txDone = TRUE]
    /\ UNCHANGED <<users, categories, nextCatId, nextSeedId, nextTxId, now, usedOtp>>

\* Category.deleteMany({ user }), the other one
DeleteAccount_DeleteCategories(p) ==
    /\ procs[p].pc = "cascade"
    /\ ~procs[p].catDone
    /\ categories' = {c \in categories : c.user # procs[p].user}
    /\ procs' = [procs EXCEPT ![p].catDone = TRUE]
    /\ UNCHANGED <<users, transactions, nextCatId, nextSeedId, nextTxId, now, usedOtp>>

\* User.findByIdAndDelete, once both deleteMany have resolved; answers 200
DeleteAccount_RemoveUser(p) ==
    /\ procs[p].pc = "cascade"
    /\ procs[p].txDone /\ procs[p].catDone
    /\ users' = [users EXCEPT ![procs[p].user] = NoDoc]
    /\ procs' = [procs EXCEPT ![p] = Idle]
    /\ UNCHANGED <<categories, transactions, nextCatId, nextSeedId, nextTxId, now, usedOtp>>

\* the catch block: the store rejects the operation the handler awaits; answers 500
DeleteAccount_StoreError(p) ==
    /\ procs[p].pc = "cascade"
    /\ procs' = [procs EXCEPT ![p] = Idle]
    /\ UNCHANGED <<users, categories, transactions, nextCatId, nextSeedId, nextTxId, now, usedOtp>>

-----------------------------------------------------------------------------
(* routes/users.js: the email change *)

\* the lifetime of an email-change code, in minutes
OtpTtl == 10

\* crypto.randomInt(100000, 999999).toString()
Otps == {"111111", "222222"}

\* codes a verification may submit: the generated ones, one never generated,
\* and one that is not 6 characters long
OtpInputs == Otps \cup {"000000", "12345"}

EmailInputs == {"c@x.com", "A@X.com", "b@x.com", "not-an-email"}

IsEmail(s) == s # "not-an-email"

ToLower(s) == CASE s = "A@X.com" -> "a@x.com" [] OTHER -> s

NormalizeEmail(s) == ToLower(s)

\* body('otp').notEmpty().isLength({ min: 6, max: 6 })
IsOtpShaped(s) == s # "12345"

\* the paths of the account row the email-change handlers test or assign
EmailChangePaths ==
    {"email", "isEmailVerified", "pendingEmail", "emailChangeOTP", "emailChangeOTPExpires"}

\* the document a handler holds in memory, on those paths
Loaded(stored) == [f \in EmailChangePaths |-> stored[f]]

\* document.save(): only the paths whose value differs from the loaded one are written
SaveModified(stored, loaded, doc) ==
    [f \in DOMAIN stored |->
        IF f \in DOMAIN loaded /\ doc[f] # loaded[f] THEN doc[f] ELSE stored[f]]

generateEmailChangeOTPKeepOld(doc, otp, t) ==
    IF doc.emailChangeOTP # None THEN doc
    ELSE [doc EXCEPT !.emailChangeOTP = otp, !.emailChangeOTPExpires = t + OtpTtl]

generateEmailChangeOTP(doc, otp, t) ==
    [doc EXCEPT !.emailChangeOTP = otp, !.emailChangeOTPExpires = t + OtpTtl]

verifyEmailChangeOTP(doc, code, t) ==
    IF doc.emailChangeOTP = None \/ doc.emailChangeOTPExpires = NoExpiry THEN FALSE
    ELSE IF doc.emailChangeOTPExpires < t THEN FALSE
    ELSE doc.emailChangeOTP = code

clearEmailChangeOTPKeep(doc) == doc

clearEmailChangeOTP(doc) ==
    [doc EXCEPT !.emailChangeOTP = None, !.emailChangeOTPExpires = NoExpiry]

\* User.findOne({ email })
FindUserByEmail(email) == {v \in UserIds : users[v] # NoDoc /\ users[v].email = email}

EmailIndexClashNever(u, doc) == FALSE

\* the unique index of users.email refuses the write of doc as the row of u
EmailIndexClash(u, doc) ==
    \E v \in UserIds : v # u /\ users[v] # NoDoc /\ users[v].email = doc.email

RequestEmailChangeCheckNoLookup(u, raw) ==
    IF ~IsEmail(raw)
    THEN Response(400, "Validation failed")
    ELSE IF ToLower(NormalizeEmail(raw)) = ToLower(users[u].email)
    THEN Response(400, "New email must be different from current email")
    ELSE Response(0, "")

\* POST /users/request-email-change up to the lookup of the address: the
\* answer, or no answer yet (status 0)
RequestEmailChangeCheckResult(u, raw) ==
    IF ~IsEmail(raw)
    THEN Response(400, "Validation failed")
    ELSE IF ToLower(NormalizeEmail(raw)) = ToLower(users[u].email)
    THEN Response(400, "New email must be different from current email")
    ELSE IF FindUserByEmail(ToLower(NormalizeEmail(raw))) # {}
    THEN Response(400, "Email is already in use")
    ELSE Response(0, "")

\* req.user is the document protect loaded
RequestEmailChange_Begin(p, u, raw) ==
    /\ Authenticated(u)
    /\ FreeProc(p)
    /\ procs' = IF RequestEmailChangeCheckResult(u, raw).status = 0
                THEN [procs EXCEPT ![p] =
                        [Idle EXCEPT !.pc = "rec_save", !.user = u, !.doc = Loaded(users[u]),
                                     !.email = ToLower(NormalizeEmail(raw))]]
                ELSE procs
    /\ UNCHANGED <<users, categories, transactions, nextCatId, nextSeedId, nextTxId, now, usedOtp>>

\* generateEmailChangeOTP, pendingEmail and the first save; a save of a row that
\* is gone throws, and the outer catch answers 500
RequestEmailChange_Save(p, otp) ==
    LET u == procs[p].user
        doc == [generateEmailChangeOTP(procs[p].doc, otp, now) EXCEPT !.pendingEmail = procs[p].email]
    IN  /\ procs[p].pc = "rec_save"
        /\ IF users[u] = NoDoc
           THEN /\ procs' = [procs EXCEPT ![p] = Idle]
                /\ UNCHANGED <<users, usedOtp>>
           ELSE /\ users' = [users EXCEPT ![u] = SaveModified(users[u], procs[p].doc, doc)]
                /\ procs' = [procs EXCEPT ![p].pc = "rec_send", ![p].doc = doc, ![p].otp = otp]
                /\ usedOtp' = [usedOtp EXCEPT ![u] = None]
        /\ UNCHANGED <<categories, transactions, nextCatId, nextSeedId, nextTxId, now>>

\* sendEmailChangeOTPEmail resolves: 200
RequestEmailChange_SendOk(p) ==
    /\ procs[p].pc = "rec_send"
    /\ procs' = [procs EXCEPT ![p] = Idle]
    /\ UNCHANGED <<users, categories, transactions, nextCatId, nextSeedId, nextTxId, now, usedOtp>>

\* sendEmailChangeOTPEmail throws: the staging fields are unset and saved, 500
RequestEmailChange_SendFail(p) ==
    LET u == procs[p].user
        doc == clearEmailChangeOTP([procs[p].doc EXCEPT !.pendingEmail = None])
    IN  /\ procs[p].pc = "rec_send"
        /\ users' = IF users[u] = NoDoc THEN users
                    ELSE [users EXCEPT ![u] = SaveModified(users[u], procs[p].doc, doc)]
        /\ procs' = [procs EXCEPT ![p] = Idle]
        /\ UNCHANGED <<categories, transactions, nextCatId, nextSeedId, nextTxId, now, usedOtp>>

\* POST /users/verify-email-change up to the check of the code: the answer, or
\* no answer yet (status 0)
VerifyEmailChangeCheckResult(u, otp) ==
    IF ~IsOtpShaped(otp)
    THEN Response(400, "Validation failed")
    ELSE IF users[u] = NoDoc \/ users[u].pendingEmail = None
    THEN Response(400, "No pending email change request found")
    ELSE IF ~verifyEmailChangeOTP(users[u], otp, now)
    THEN Response(400, "Invalid or expired verification code")
    ELSE Response(0, "")

\* User.findById and the checks
VerifyEmailChange_Load(p, u, otp) ==
    /\ Authenticated(u)
    /\ FreeProc(p)
    /\ procs' = IF VerifyEmailChangeCheckResult(u, otp).status = 0
                THEN [procs EXCEPT ![p] =
                        [Idle EXCEPT !.pc = "vec_save", !.user = u, !.doc = Loaded(users[u]), !.otp = otp]]
                ELSE procs
    /\ UNCHANGED <<users, categories, transactions, nextCatId, nextSeedId, nextTxId, now, usedOtp>>

VerifyEmailChangeSaveKeepsStaging(p) ==
    LET u == procs[p].user
    IN  [status |-> 200, message |-> "Email updated successfully",
         users |-> [users EXCEPT ![u].email = procs[p].doc.pendingEmail]]

\* the commit of the loaded document and the answer
VerifyEmailChangeSaveResult(p) ==
    LET u == procs[p].user
        loaded == procs[p].doc
        doc == clearEmailChangeOTP([loaded EXCEPT !.email = loaded.pendingEmail,
                                                  !.isEmailVerified = TRUE,
                                                  !.pendingEmail = None])
    IN  IF users[u] = NoDoc
        THEN [status |-> 500, message |-> "Server error", users |-> users]
        ELSE IF EmailIndexClash(u, SaveModified(users[u], loaded, doc))
        THEN [status |-> 500, message |-> "Server error", users |-> users]
        ELSE [status |-> 200, message |-> "Email updated successfully",
              users |-> [users EXCEPT ![u] = SaveModified(users[u], loaded, doc)]]

VerifyEmailChange_Save(p) ==
    LET r == VerifyEmailChangeSaveResult(p)
    IN  /\ procs[p].pc = "vec_save"
        /\ users' = r.users
        /\ usedOtp' = IF r.status = 200 THEN [usedOtp EXCEPT ![procs[p].user] = procs[p].otp]
                      ELSE usedOtp
        /\ procs' = [procs EXCEPT ![p] = Idle]
        /\ UNCHANGED <<categories, transactions, nextCatId, nextSeedId, nextTxId, now>>

\* the clock moves on by the lifetime of a code
Tick ==
    /\ now < MaxTime
    /\ now' = now + OtpTtl
    /\ UNCHANGED <<users, categories, transactions, nextCatId, nextSeedId, nextTxId, procs, usedOtp>>

-----------------------------------------------------------------------------
(* routes/users.js: profile, preferences, avatar *)

UserAllowedUpdatesWithEmail == {"name", "phone", "currency", "timezone", "email"}

\* the fields PUT /users/profile copies from the body
UserAllowedUpdates == {"name", "phone", "currency", "timezone"}

\* bodies of PUT /users/profile: a record of the fields the request gives
ProfileBodies ==
    { [name |-> "Al"], [name |-> "Al", email |-> "c@x.com"], [name |-> "x", email |-> "c@x.com"] }

\* body('name').optional().trim().isLength({ min: 2, max: 50 })
IsValidProfile(body) == "name" \in DOMAIN body => body.name # "x"

\* PUT /users/profile
UpdateProfileResult(u, body) ==
    IF ~IsValidProfile(body)
    THEN [status |-> 400, message |-> "Validation failed", users |-> users]
    ELSE [status |-> 200, message |-> "Profile updated successfully",
          users |-> [users EXCEPT ![u] = ApplyUpdates(users[u], body, UserAllowedUpdates)]]

UpdateProfile(u, body) ==
    /\ Authenticated(u)
    /\ users' = UpdateProfileResult(u, body).users
    /\ UNCHANGED <<categories, transactions, nextCatId, nextSeedId, nextTxId, procs, now, usedOtp>>

\* bodies of PUT /users/preferences
PreferencesBodies ==
    { [preferences |-> [theme |-> "dark"]],
      [preferences |-> [theme |-> "dark"], email |-> "c@x.com"],
      [preferences |-> [theme |-> "blue"], email |-> "c@x.com"] }

\* PUT /users/preferences: findByIdAndUpdate(id, { preferences })
UpdatePreferencesResult(u, body) ==
    IF body.preferences.theme \notin {"light", "dark"}
    THEN [status |-> 400, message |-> "Validation failed", users |-> users]
    ELSE [status |-> 200, message |-> "Preferences updated successfully",
          users |-> [users EXCEPT ![u].theme = body.preferences.theme]]

UpdatePreferences(u, body) ==
    /\ Authenticated(u)
    /\ users' = UpdatePreferencesResult(u, body).users
    /\ UNCHANGED <<categories, transactions, nextCatId, nextSeedId, nextTxId, procs, now, usedOtp>>

\* POST /users/avatar: req.user.avatar = url; req.user.save() writes that path only
UploadAvatarResult(u, file) ==
    IF file = None
    THEN [status |-> 400, message |-> "No image file uploaded", users |-> users]
    ELSE [status |-> 200, message |-> "Avatar updated successfully",
          users |-> [users EXCEPT ![u].avatar = "https://res.cloudinary.com/avatars/user"]]

UploadAvatar(u, file) ==
    /\ Authenticated(u)
    /\ users' = UploadAvatarResult(u, file).users
    /\ UNCHANGED <<categories, transactions, nextCatId, nextSeedId, nextTxId, procs, now, usedOtp>>

-----------------------------------------------------------------------------
(* Transaction.getUserSummary (models/User.js) and the analytics router *)

DaysPerMonth == 2    \* days in a month of the calendar
MaxRows == 3         \* transactions in the ledger the analytics read

\* dates are days at midnight; the calendar is one year of two months
Dates == 0 .. (2 * DaysPerMonth - 1)

Amounts == {1, 2}

\* a stored transaction with the amount and the date the analytics read
DatedTransactionDoc(id, u, type, cat, amount, date) ==
    TransactionDoc(id, u, type, cat) @@ [amount |-> amount, date |-> date]

\* new Date(y, m, 1)
MonthStart(t) == t - (t % DaysPerMonth)

\* new Date(y, m + 1, 0): midnight of the last day of the month
MonthLastDay(t) == MonthStart(t) + DaysPerMonth - 1

\* new Date(y, 0, 1) and new Date(y, 11, 31)
YearStart(t) == 0

YearLastDay(t) == 2 * DaysPerMonth - 1

PeriodInputs == {"month", "year"}

\* the switch on period of /dashboard and /categories
ResolvePeriod(period, t) ==
    CASE period = "month" -> [startDate |-> MonthStart(t), endDate |-> MonthLastDay(t)]
      [] period = "year" -> [startDate |-> YearStart(t), endDate |-> YearLastDay(t)]

RECURSIVE SumAmounts(_)
\* { $sum: '$amount' } over a set of transactions
SumAmounts(rows) ==
    IF rows = {} THEN 0
    ELSE LET r == CHOOSE x \in rows : TRUE IN r.amount + SumAmounts(rows \ {r})

RECURSIVE Gcd(_, _)
Gcd(a, b) == IF b = 0 THEN a ELSE Gcd(b, a % b)

\* a quotient of two amounts, kept exact
Quotient(n, d) == [num |-> n \div Gcd(n, d), den |-> d \div Gcd(n, d)]

\* a JSON number of the response, in hundredths
Number(k) == [text |-> FALSE, hundredths |-> 100 * k]

Abs(n) == IF n < 0 THEN 0 - n ELSE n

PercentToFixed0(n, d) ==
    LET q == (2 * Abs(n) * 100 + Abs(d)) \div (2 * Abs(d))
    IN  [text |-> TRUE, hundredths |-> IF (n < 0) = (d < 0) THEN 100 * q ELSE 0 - 100 * q]

\* (n / d * 100).toFixed(2): a string of the percentage rounded to two
\* decimals, halves away from zero
PercentToFixed2(n, d) ==
    LET q == (2 * Abs(n) * 10000 + Abs(d)) \div (2 * Abs(d))
    IN  [text |-> TRUE, hundredths |-> IF (n < 0) = (d < 0) THEN q ELSE 0 - q]

\* the number a comparison or a sum coerces a response value to
ToNumber(v) == v.hundredths

\* the $match stage of getUserSummary: $gte startDate, $lte endDate
SummaryMatch(txs, userId, startDate, endDate) ==
    {t \in txs : t.user = userId /\ t.status = "completed"
                 /\ t.date >= startDate /\ t.date <= endDate}

\* the $group stage and the defaults of result: one entry per type
SummaryGroup(rows, type) ==
    LET g == {t \in rows : t.type = type}
    IN  IF g = {} THEN [total |-> 0, count |-> 0, average |-> Quotient(0, 1)]
        ELSE [total |-> SumAmounts(g), count |-> Cardinality(g),
              average |-> Quotient(SumAmounts(g), Cardinality(g))]

\* Transaction.getUserSummary(userId, startDate, endDate); every caller passes
\* both dates
getUserSummary(txs, userId, startDate, endDate) ==
    LET rows == SummaryMatch(txs, userId, startDate, endDate)
        income == SummaryGroup(rows, "income")
        expense == SummaryGroup(rows, "expense")
    IN  [income |-> income, expense |-> expense, net |-> income.total - expense.total]

\* GET /analytics/dashboard: the summary and the period of the answer (the
\* breakdown and the trends are further reads of the same collection)
DashboardResult(u, period) ==
    LET w == ResolvePeriod(period, now)
    IN  [status |-> 200, summary |-> getUserSummary(transactions, u, w.startDate, w.endDate),
         startDate |-> w.startDate, endDate |-> w.endDate, type |-> period]

Dashboard(p, u, period) ==
    /\ Authenticated(u)
    /\ FreeProc(p)
    /\ procs' = [procs EXCEPT ![p] = [Idle EXCEPT !.pc = "respond", !.user = u,
                                                  !.doc = DashboardResult(u, period)]]
    /\ UNCHANGED <<users, categories, transactions, nextCatId, nextSeedId, nextTxId, now, usedOtp>>

\* the $match stage of /analytics/categories; type narrows it when given
AnalysisMatch(txs, u, w, type) ==
    {t \in txs : /\ t.user = u /\ t.status = "completed"
                 /\ t.date >= w.startDate /\ t.date <= w.endDate
                 /\ (type \in Types => t.type = type)}

\* $group by category, then $lookup and $unwind: a group whose category is not
\* stored is dropped
AnalysisGroups(rows, cats) ==
    {[categoryId |-> c.id, categoryName |-> c.name, categoryType |-> c.type,
      total |-> SumAmounts({t \in rows : t.category = c.id}),
      count |-> Cardinality({t \in rows : t.category = c.id})] :
        c \in {c \in cats : \E t \in rows : t.category = c.id}}

RECURSIVE SortByTotal(_)
\* { $sort: { total: -1 } }
SortByTotal(groups) ==
    IF groups = {} THEN << >>
    ELSE LET g == CHOOSE x \in groups : \A y \in groups : y.total <= x.total
         IN  <<g>> \o SortByTotal(groups \ {g})

RECURSIVE SumTotals(_)
\* categoryAnalysis.reduce((sum, cat) => sum + cat.total, 0)
SumTotals(seq) == IF seq = << >> THEN 0 ELSE Head(seq).total + SumTotals(Tail(seq))

\* cat.percentage = totalAmount > 0 ? (cat.total / totalAmount * 100).toFixed(2) : 0
Percentage(total, totalAmount) ==
    IF totalAmount > 0 THEN PercentToFixed2(total, totalAmount) ELSE Number(0)

\* GET /analytics/categories
CategoryAnalysisResult(u, period, type) ==
    LET w == ResolvePeriod(period, now)
        sorted == SortByTotal(AnalysisGroups(AnalysisMatch(transactions, u, w, type), categories))
        totalAmount == SumTotals(sorted)
    IN  [status |-> 200, totalAmount |-> totalAmount,
         categoryAnalysis |->
             [i \in 1..Len(sorted) |->
                 sorted[i] @@ [percentage |-> Percentage(sorted[i].total, totalAmount)]]]

CategoryAnalysis(p, u, period, type) ==
    /\ Authenticated(u)
    /\ FreeProc(p)
    /\ procs' = [procs EXCEPT ![p] = [Idle EXCEPT !.pc = "respond", !.user = u,
                                                  !.doc = CategoryAnalysisResult(u, period, type)]]
    /\ UNCHANGED <<users, categories, transactions, nextCatId, nextSeedId, nextTxId, now, usedOtp>>

calculateChangeZeroBase(current, previous) ==
    IF previous = 0 THEN Number(0)
    ELSE PercentToFixed2(current - previous, previous)

\* calculateChange of /analytics/comparison
calculateChange(current, previous) ==
    IF previous = 0 THEN (IF current > 0 THEN Number(100) ELSE Number(0))
    ELSE PercentToFixed2(current - previous, previous)

\* one entry of the comparison object
ComparisonEntry(current, previous) ==
    [current |-> current, previous |-> previous,
     change |-> calculateChange(current, previous),
     changeType |-> IF current > previous THEN "increase" ELSE "decrease"]

\* GET /analytics/comparison, the summary of the current month
Comparison_Current(p, u) ==
    /\ Authenticated(u)
    /\ FreeProc(p)
    /\ procs' = [procs EXCEPT ![p] =
           [Idle EXCEPT !.pc = "comparison_previous", !.user = u,
                        !.doc = [currentMonthData |->
                                     getUserSummary(transactions, u, MonthStart(now), now)]]]
    /\ UNCHANGED <<users, categories, transactions, nextCatId, nextSeedId, nextTxId, now, usedOtp>>

\* the comparison object, from the two summaries
ComparisonResult(currentMonthData, lastMonthData) ==
    [status |-> 200,
     income |-> ComparisonEntry(currentMonthData.income.total, lastMonthData.income.total),
     expense |-> ComparisonEntry(currentMonthData.expense.total, lastMonthData.expense.total),
     net |-> ComparisonEntry(currentMonthData.net, lastMonthData.net)]

\* GET /analytics/comparison, the summary of the last month and the answer
Comparison_Previous(p) ==
    /\ procs[p].pc = "comparison_previous"
    /\ procs' = [procs EXCEPT ![p].pc = "respond",
                              ![p].doc = ComparisonResult(procs[p].doc.currentMonthData,
                                  getUserSummary(transactions, procs[p].user,
                                      MonthStart(now) - DaysPerMonth, MonthStart(now) - 1))]
    /\ UNCHANGED <<users, categories, transactions, nextCatId, nextSeedId, nextTxId, now, usedOtp>>

\* res.json(...) of an analytics request
Analytics_Respond(p) ==
    /\ procs[p].pc = "respond"
    /\ procs' = [procs EXCEPT ![p] = Idle]
    /\ UNCHANGED <<users, categories, transactions, nextCatId, nextSeedId, nextTxId, now, usedOtp>>

-----------------------------------------------------------------------------
(* The credentials of the user schema and getProfile (models/User.js) *)

VerificationTtl == 1440

ResetTtl == 60

LoginOtpTtl == 10

Tokens == {"tokA", "tokB"}

\* the token, code and expiry paths of the schema, none of them set
NoCredentials ==
    [emailVerificationToken |-> None, emailVerificationExpires |-> NoExpiry,
     passwordResetToken |-> None, passwordResetExpires |-> NoExpiry,
     twoFactorSecret |-> None, otpCode |-> None, otpExpires |-> NoExpiry,
     emailChangeToken |-> None, emailChangeTokenExpires |-> NoExpiry]

\* the generators of the schema: each sets a token or a code and its expiry
generateEmailVerificationToken(doc, token, t) ==
    [doc EXCEPT !.emailVerificationToken = token, !.emailVerificationExpires = t + VerificationTtl]

generatePasswordResetToken(doc, token, t) ==
    [doc EXCEPT !.passwordResetToken = token, !.passwordResetExpires = t + ResetTtl]

generateOTP(doc, otp, t) ==
    [doc EXCEPT !.otpCode = otp, !.otpExpires = t + LoginOtpTtl]

\* the credentials a row can hold after any of the three generators ran
CredentialStates ==
    LET verification == {NoCredentials}
            \cup {generateEmailVerificationToken(NoCredentials, k, 0) : k \in Tokens}
        reset == verification \cup {generatePasswordResetToken(c, "tokB", 0) : c \in verification}
    IN  reset \cup {generateOTP(c, "111111", 0) : c \in reset}

\* getProfile: toObject() without the paths it deletes
getProfile(userObject) ==
    [f \in DOMAIN userObject \
        {"password", "emailVerificationToken", "passwordResetToken", "passwordResetExpires",
         "otpCode", "otpExpires", "twoFactorSecret", "emailChangeOTP",
         "emailChangeOTPExpires", "emailChangeToken", "emailChangeTokenExpires",
         "pendingEmail"} |-> userObject[f]]

\* GET /users/profile
GetProfileResult(u) == [status |-> 200, user |-> getProfile(users[u])]

GetProfile(u) ==
    /\ Authenticated(u)
    /\ GetProfileResult(u).status = 200
    /\ UNCHANGED vars

-----------------------------------------------------------------------------
(* The specifications *)

\* category ids a request may name: those of created categories, stored yet or
\* not, and those of the first income and the first expense default
CatIdInputs == (1..MaxCats) \cup {MaxCats + 1, MaxCats + 6}

\* transaction ids a request may name, stored yet or not
TxIdInputs == 1..MaxTx

Init ==
    /\ users = [u \in UserIds |-> IF u = "u1" THEN UserDoc("a@x.com", "pw1") ELSE UserDoc("b@x.com", "pw2")]
    /\ categories = {}
    /\ transactions = {}
    /\ nextCatId = 1
    /\ nextSeedId = 1
    /\ nextTxId = 1
    /\ procs = [p \in ProcIds |-> Idle]
    /\ now = 0
    /\ usedOtp = [u \in UserIds |-> None]

CategoryRequests ==
    \/ \E u \in UserIds, n \in RawNames, t \in Types : CreateCategory(u, n, t, DefaultColor)
    \/ \E u \in UserIds, id \in CatIdInputs, b \in CategoryBodies : UpdateCategory(u, id, b)
    \/ \E u \in UserIds, id \in CatIdInputs : DeleteCategory(u, id)
    \/ \E u \in UserIds, id \in CatIdInputs : GetCategory(u, id)
    \/ \E p \in ProcIds, u \in UserIds : SeedDefaults_Check(p, u)
    \/ \E p \in ProcIds : SeedDefaults_Insert(p)

TransactionRequests ==
    \/ \E u \in UserIds, t \in Types, c \in CatIdInputs : CreateTransaction(u, t, c)
    \/ \E u \in UserIds, id \in TxIdInputs, b \in TransactionBodies(CatIdInputs) : UpdateTransaction(u, id, b)
    \/ \E u \in UserIds, id \in TxIdInputs : DeleteTransaction(u, id)
    \/ \E u \in UserIds, id \in TxIdInputs : GetTransaction(u, id)

AccountDeletion ==
    \/ \E p \in ProcIds, u \in UserIds, pw \in Passwords \cup {None} : DeleteAccount_Begin(p, u, pw)
    \/ \E p \in ProcIds : DeleteAccount_DeleteTransactions(p)
    \/ \E p \in ProcIds : DeleteAccount_DeleteCategories(p)
    \/ \E p \in ProcIds : DeleteAccount_RemoveUser(p)
    \/ \E p \in ProcIds : DeleteAccount_StoreError(p)

\* the categories and the transactions under every sequence of their requests
Next == CategoryRequests \/ TransactionRequests

Spec == Init /\ [][Next]_vars

\* account deletion, among requests that create categories and transactions
NextAccount ==
    \/ AccountDeletion
    \/ \E u \in UserIds, n \in RawNames, t \in Types : CreateCategory(u, n, t, DefaultColor)
    \/ \E u \in UserIds, t \in Types, c \in CatIdInputs : CreateTransaction(u, t, c)

SpecAccount == Init /\ [][NextAccount]_vars

\* the email change of the accounts of U
EmailChange(U) ==
    \/ \E p \in ProcIds, u \in U, e \in EmailInputs : RequestEmailChange_Begin(p, u, e)
    \/ \E p \in ProcIds, otp \in Otps : RequestEmailChange_Save(p, otp)
    \/ \E p \in ProcIds : RequestEmailChange_SendOk(p)
    \/ \E p \in ProcIds : RequestEmailChange_SendFail(p)
    \/ \E p \in ProcIds, u \in U, otp \in OtpInputs : VerifyEmailChange_Load(p, u, otp)
    \/ \E p \in ProcIds : VerifyEmailChange_Save(p)
    \/ Tick

ProfileRequests(U) ==
    \/ \E u \in U, b \in ProfileBodies : UpdateProfile(u, b)
    \/ \E u \in U, b \in PreferencesBodies : UpdatePreferences(u, b)
    \/ \E u \in U, f \in {None, "image"} : UploadAvatar(u, f)

\* the email change of one account under concurrent requests, as the clock
\* moves; the other account holds an address
NextEmail == EmailChange({"u1"})

SpecEmail == Init /\ [][NextEmail]_vars

\* every request that writes the row of one account
NextProfile == EmailChange({"u1"}) \/ ProfileRequests({"u1"})

SpecProfile == Init /\ [][NextProfile]_vars

\* both accounts change their address at once, while every code is in time
NextEmailRace ==
    \/ \E p \in ProcIds, u \in UserIds, e \in {"c@x.com", "A@X.com"} :
            RequestEmailChange_Begin(p, u, e)
    \/ \E p \in ProcIds : RequestEmailChange_Save(p, "111111")
    \/ \E p \in ProcIds : RequestEmailChange_SendOk(p)
    \/ \E p \in ProcIds, u \in UserIds : VerifyEmailChange_Load(p, u, "111111")
    \/ \E p \in ProcIds : VerifyEmailChange_Save(p)

SpecEmailRace == Init /\ [][NextEmailRace]_vars

\* one account requests two addresses in turn, as the clock moves
NextReissue ==
    \/ \E p \in ProcIds, e \in {"c@x.com", "d@x.com"} : RequestEmailChange_Begin(p, "u1", e)
    \/ \E p \in ProcIds, otp \in Otps : RequestEmailChange_Save(p, otp)
    \/ \E p \in ProcIds : RequestEmailChange_SendOk(p)
    \/ \E p \in ProcIds, otp \in Otps : VerifyEmailChange_Load(p, "u1", otp)
    \/ \E p \in ProcIds : VerifyEmailChange_Save(p)
    \/ Tick

SpecReissue == Init /\ [][NextReissue]_vars

\* one account requests two addresses at once, and a send may fail
NextRollback ==
    \/ NextReissue
    \/ \E p \in ProcIds : RequestEmailChange_SendFail(p)

SpecRollback == Init /\ [][NextRollback]_vars

\* account deletion among requests that create and soft-delete
NextRemoval ==
    \/ NextAccount
    \/ \E u \in UserIds, id \in CatIdInputs : DeleteCategory(u, id)

SpecRemoval == Init /\ [][NextRemoval]_vars

\* the ledger the analytics read: the first account has seeded its defaults, the
\* second created one category, and each owns transactions in its categories
LedgerCategories ==
    {CategoryDoc(MaxCats + i, "u1", defaultCategories[i].name, defaultCategories[i].type,
                 defaultCategories[i].color, TRUE) : i \in 1..Len(defaultCategories)}
        \cup {CategoryDoc(1, "u2", "Misc", "expense", DefaultColor, FALSE)}

\* what a POST /transactions of the ledger gave: owner, category, amount, date
LedgerEntries ==
    {[user |-> c.user, type |-> c.type, category |-> c.id, amount |-> a, date |-> d] :
        c \in {c \in LedgerCategories : c.id \in {MaxCats + 1, MaxCats + 6, MaxCats + 7}},
        a \in Amounts, d \in Dates}
        \cup {[user |-> "u2", type |-> "expense", category |-> 1, amount |-> 1, date |-> d] :
                  d \in {DaysPerMonth - 1, 2 * DaysPerMonth - 1}}

\* transactions are interchangeable: a ledger lists its entries in one order
EntryRank(e) == (e.category * (2 * DaysPerMonth) + e.date) * 3 + e.amount

Ledgers(n) ==
    UNION {{ {DatedTransactionDoc(i, e[i].user, e[i].type, e[i].category, e[i].amount, e[i].date) :
                 i \in 1..k} :
             e \in {f \in [1..k -> LedgerEntries] :
                        \A i \in 1..(k - 1) : EntryRank(f[i]) <= EntryRank(f[i + 1])} } :
           k \in 0..n}

InitAnalytics ==
    /\ users = [u \in UserIds |-> IF u = "u1" THEN UserDoc("a@x.com", "pw1") ELSE UserDoc("b@x.com", "pw2")]
    /\ categories = LedgerCategories
    /\ transactions \in Ledgers(MaxRows)
    /\ nextCatId = 2
    /\ nextSeedId = Len(defaultCategories) + 1
    /\ nextTxId = Cardinality(transactions) + 1
    /\ procs = [p \in ProcIds |-> Idle]
    /\ now \in {t \in Dates : t >= DaysPerMonth}
    /\ usedOtp = [u \in UserIds |-> None]

\* the analytics requests, one at a time, over every ledger
NextAnalytics ==
    \/ \E u \in UserIds, period \in PeriodInputs : Dashboard(1, u, period)
    \/ \E u \in UserIds, period \in PeriodInputs, t \in Types \cup {None} :
           CategoryAnalysis(1, u, period, t)
    \/ \E u \in UserIds : Comparison_Current(1, u)
    \/ Comparison_Previous(1)
    \/ Analytics_Respond(1)

SpecAnalytics == InitAnalytics /\ [][NextAnalytics]_vars

\* accounts with credentials issued, while one of them changes its address
InitCredentials ==
    /\ \E c \in CredentialStates :
           users = [u \in UserIds |->
                       IF u = "u1" THEN UserDoc("a@x.com", "pw1") @@ c
                       ELSE UserDoc("b@x.com", "pw2") @@ NoCredentials]
    /\ categories = {}
    /\ transactions = {}
    /\ nextCatId = 1
    /\ nextSeedId = 1
    /\ nextTxId = 1
    /\ procs = [p \in ProcIds |-> Idle]
    /\ now = 0
    /\ usedOtp = [u \in UserIds |-> None]

NextCredentials ==
    \/ \E u \in UserIds : GetProfile(u)
    \/ RequestEmailChange_Begin(1, "u1", "c@x.com")
    \/ \E otp \in Otps : RequestEmailChange_Save(1, otp)
    \/ RequestEmailChange_SendOk(1)
    \/ \E otp \in Otps : VerifyEmailChange_Load(1, "u1", otp)
    \/ VerifyEmailChange_Save(1)
    \/ \E b \in ProfileBodies : UpdateProfile("u1", b)
    \/ Tick

SpecCredentials == InitCredentials /\ [][NextCredentials]_vars

-----------------------------------------------------------------------------
(* The claims *)

\* C1: in every state reached by transaction and category requests, every
\* stored transaction references a category of its own user whose type equals
\* the transaction's type, also after PUT /transactions/:id changed the category
C1_TransactionMatchesCategory ==
    \A t \in transactions :
        \E c \in categories : c.id = t.category /\ c.user = t.user /\ c.type = t.type

\* a transaction whose category was changed to one of the other type
C1_RecategorisedAcrossTypes ==
    \E t \in transactions : \E c \in categories :
        c.id = t.category /\ c.user = t.user /\ c.type # t.type

\* C2: when the send of request-email-change fails, the step that rolls back
\* leaves pendingEmail and the code pair unset, every verify-email-change then
\* fails whatever the code, and neither the save nor the rollback of the request
\* touches the email
C2_SendFailureRollsBack ==
    [][\A p \in ProcIds, u \in UserIds :
          /\ (/\ procs[p].pc = "rec_send"
              /\ procs[p].user = u
              /\ users[u] # NoDoc
              /\ RequestEmailChange_SendFail(p)) =>
                /\ users'[u].pendingEmail = None
                /\ users'[u].emailChangeOTP = None
                /\ users'[u].emailChangeOTPExpires = NoExpiry
                /\ \A otp \in OtpInputs : VerifyEmailChangeCheckResult(u, otp)'.status = 400
                /\ users'[u].email = users[u].email
          /\ (/\ procs[p].pc = "rec_save"
              /\ procs[p].user = u
              /\ users[u] # NoDoc
              /\ \E otp \in Otps : RequestEmailChange_Save(p, otp)) =>
                users'[u].email = users[u].email]_vars

\* a request has stored its staging fields and its send is about to fail
C2_SendPending ==
    \E p \in ProcIds :
        /\ procs[p].pc = "rec_send"
        /\ users[procs[p].user].pendingEmail = procs[p].email
        /\ users[procs[p].user].emailChangeOTP = procs[p].otp

\* C3: verify-email-change fails with one and the same status and message when
\* the code is incorrect, when the stored code has expired and when no code is
\* pending; an incorrect code is answered 400 'Invalid or expired verification
\* code', so is each of the three
C3_FailsIdentically ==
    \A u \in UserIds, otp \in OtpInputs :
        /\ users[u] # NoDoc
        /\ IsOtpShaped(otp)
        /\ \/ users[u].emailChangeOTP = None
           \/ users[u].emailChangeOTP # otp
           \/ users[u].emailChangeOTPExpires < now
        => VerifyEmailChangeCheckResult(u, otp) =
               Response(400, "Invalid or expired verification code")

\* a code is pending and the submitted one differs from it: this failure is
\* answered 'Invalid or expired verification code'
C3_IncorrectCode ==
    \E u \in UserIds, otp \in OtpInputs :
        /\ IsOtpShaped(otp)
        /\ users[u].pendingEmail # None
        /\ users[u].emailChangeOTP \notin {None, otp}
        /\ VerifyEmailChangeCheckResult(u, otp) =
               Response(400, "Invalid or expired verification code")

C5_NoRowsOfDeleted ==
    \A u \in UserIds :
        users[u] = NoDoc =>
            /\ \A t \in transactions : t.user # u
            /\ \A c \in categories : c.user # u

\* the account is gone and a row still references it
C5_Orphan ==
    \E u \in UserIds :
        /\ users[u] = NoDoc
        /\ \E c \in categories : c.user = u

\* C6: when a DELETE /users/account request ends, with 200 or with an error,
\* either the account and every transaction and category it had when the
\* request began exist, or the account and all its rows are gone
C6_AllOrNothing ==
    [][\A p \in ProcIds :
          /\ procs[p].pc = "cascade"
          /\ DeleteAccount_RemoveUser(p) \/ DeleteAccount_StoreError(p)
          =>
              \/ /\ users'[procs[p].user] # NoDoc
                 /\ procs[p].txSeen \subseteq {t.id : t \in transactions'}
                 /\ procs[p].catSeen \subseteq {c.id : c \in categories'}
              \/ /\ users'[procs[p].user] = NoDoc
                 /\ \A t \in transactions' : t.user # procs[p].user
                 /\ \A c \in categories' : c.user # procs[p].user]_vars

\* C7: DELETE /users/account with no password, or with one that does not match
\* the stored hash, is answered 400 and changes nothing
C7_PasswordReverified ==
    /\ [](\A u \in UserIds, pw \in Passwords \cup {None} :
            users[u] # NoDoc /\ (pw = None \/ Hash(pw) # users[u].password) =>
                DeleteAccountCheckResult(u, pw).status = 400)
    /\ [][\A p \in ProcIds, u \in UserIds, pw \in Passwords \cup {None} :
            /\ users[u] # NoDoc
            /\ pw = None \/ Hash(pw) # users[u].password
            /\ DeleteAccount_Begin(p, u, pw)
            => UNCHANGED vars]_vars

\* an account with a category and a transaction, and no request in flight
C7_AccountWithRows ==
    \E u \in UserIds :
        /\ users[u] # NoDoc
        /\ AllIdle
        /\ \E c \in categories : c.user = u
        /\ \E t \in transactions : t.user = u

\* C8: POST /categories/defaults of a user who owns a category, active or not,
\* is answered 400 'User already has categories' and changes nothing
C8_SeedGuarded ==
    /\ [](\A u \in UserIds :
            (\E c \in categories : c.user = u) =>
                SeedDefaultsCheckResult(u) = Response(400, "User already has categories"))
    /\ [][\A p \in ProcIds, u \in UserIds :
            (\E c \in categories : c.user = u) /\ SeedDefaults_Check(p, u)
            => UNCHANGED vars]_vars

\* a first call has seeded the user: it owns exactly the defaults
C8_Seeded ==
    \E u \in UserIds :
        /\ AllIdle
        /\ CountCategories(categories, u) = Len(defaultCategories)
        /\ \A c \in categories : c.user = u => c.isDefault

\* C9: POST /transactions naming a category whose type differs from the
\* transaction's type is answered 400 and stores no transaction
C9_TypeMismatchRefused ==
    \A u \in UserIds, type \in Types, cat \in CatIdInputs :
        (\E c \in categories : c.id = cat /\ c.type # type) =>
            /\ CreateTransactionResult(u, type, cat).status = 400
            /\ CreateTransactionResult(u, type, cat).transactions = transactions

\* a user owns an active expense category it created, which an income
\* transaction may name
C9_ExpenseCategory ==
    \E c \in categories :
        c.isActive /\ ~c.isDefault /\ c.type = "expense" /\ nextTxId <= MaxTx

\* C10: the email of an account changes only in the step of verify-email-change
\* that commits with 200
C10_EmailOnlyByVerify ==
    [][\A u \in UserIds :
          users[u] # NoDoc /\ users'[u] # NoDoc /\ users'[u].email # users[u].email =>
              \E p \in ProcIds :
                  /\ procs[p].pc = "vec_save"
                  /\ procs[p].user = u
                  /\ VerifyEmailChange_Save(p)
                  /\ VerifyEmailChangeSaveResult(p).status = 200]_vars

\* the profile, the preferences and the avatar were updated and the email was
\* changed by a verification
C10_AllUpdated ==
    /\ users["u1"].name = "Al"
    /\ users["u1"].theme = "dark"
    /\ users["u1"].avatar # ""
    /\ users["u1"].email = "c@x.com"

\* C11: a verify-email-change commit answered 200 leaves the account with the
\* email that was staged as pendingEmail, isEmailVerified true, and
\* pendingEmail, emailChangeOTP and emailChangeOTPExpires unset
C11_CommitsStaged ==
    [][\A p \in ProcIds, u \in UserIds :
          /\ procs[p].pc = "vec_save"
          /\ procs[p].user = u
          /\ VerifyEmailChange_Save(p)
          /\ VerifyEmailChangeSaveResult(p).status = 200
          =>
          /\ users'[u].email = procs[p].doc.pendingEmail
          /\ users'[u].isEmailVerified
          /\ users'[u].pendingEmail = None
          /\ users'[u].emailChangeOTP = None
          /\ users'[u].emailChangeOTPExpires = NoExpiry]_vars

\* a verification has loaded a row whose staged address is its own email
C11_StagedOwnEmail ==
    \E p \in ProcIds :
        /\ procs[p].pc = "vec_save"
        /\ procs[p].doc.pendingEmail = procs[p].doc.email

\* C12: in every reachable state no two accounts have the same email, also when
\* both request a change to one unclaimed address and both verify, and when the
\* address is claimed between an account's request and its verification
C12_EmailsUnique ==
    \A u \in UserIds, v \in UserIds :
        u # v /\ users[u] # NoDoc /\ users[v] # NoDoc => users[u].email # users[v].email

\* one account holds the address that the other has staged with a valid code
C12_ClaimedWhileStaged ==
    \E u \in UserIds, v \in UserIds :
        /\ u # v
        /\ users[u].email = "c@x.com"
        /\ users[v].pendingEmail = "c@x.com"
        /\ users[v].emailChangeOTP = "111111"

\* an id no document has
UnusedId == 0

\* the default categories as POST /categories/defaults writes them
SeededForms(id, u) ==
    {CategoryDoc(id, u, defaultCategories[i].name, defaultCategories[i].type,
                 defaultCategories[i].color, TRUE) : i \in 1..Len(defaultCategories)}

\* C13: PUT and DELETE /categories/:id on a default category of the caller are
\* answered 400 and change no category, a default category is in every state
\* as it was seeded, and no step removes or changes it
C13_DefaultsImmutable ==
    /\ [](/\ \A c \in categories : c.isDefault => c \in SeededForms(c.id, c.user)
          /\ \A u \in UserIds, id \in CatIdInputs, b \in CategoryBodies :
                (\E c \in categories : c.id = id /\ c.user = u /\ c.isDefault) =>
                    /\ UpdateCategoryResult(u, id, b).status = 400
                    /\ UpdateCategoryResult(u, id, b).categories = categories
                    /\ DeleteCategoryResult(u, id).status = 400
                    /\ DeleteCategoryResult(u, id).categories = categories)
    /\ [][\A c \in categories : c.isDefault => c \in categories']_vars

\* a user owns all its seeded defaults next to a category it created and then
\* soft-deleted
C13_SeededAmongOthers ==
    \E u \in UserIds :
        /\ Cardinality({c \in categories : c.user = u /\ c.isDefault}) = Len(defaultCategories)
        /\ \E c \in categories : c.user = u /\ ~c.isDefault /\ ~c.isActive

\* C14: DELETE /categories/:id answered 200 sets isActive to false on the row
\* and changes nothing else, transactions included; a step that removes a
\* category row is the Category.deleteMany of an account deletion
C14_SoftDelete ==
    [][categories' # categories =>
       /\ \A u \in UserIds, id \in CatIdInputs :
            DeleteCategory(u, id) /\ DeleteCategoryResult(u, id).status = 200 =>
                /\ transactions' = transactions
                /\ \A c \in categories :
                      IF c.id = id THEN [c EXCEPT !.isActive = FALSE] \in categories'
                      ELSE c \in categories'
       /\ {c.id : c \in categories} \subseteq {c.id : c \in categories'}
            \/ \E p \in ProcIds :
                  procs[p].pc = "cascade" /\ DeleteAccount_DeleteCategories(p)]_vars

\* a transaction references a category that was soft-deleted
C14_ReferencedInactive ==
    \E c \in categories, t \in transactions : ~c.isActive /\ t.category = c.id

\* C15: under every interleaving of category create, update, delete and
\* seed-defaults requests, two category rows of one user with one name are one
\* row
C15_NamesUnique ==
    \A c \in categories, d \in categories :
        c.user = d.user /\ c.name = d.name => c.id = d.id

\* a user owns two categories it created, so that a rename can name the other
C15_TwoOwn ==
    \E c \in categories, d \in categories :
        c.user = d.user /\ c.id # d.id /\ ~c.isDefault /\ ~d.isDefault /\ c.isActive

\* C16: creating a category with a name the user already has, and renaming a
\* category to the name of another category of the user, are answered 400 and
\* change no category
C16_DuplicateIs400 ==
    /\ \A u \in UserIds, n \in RawNames, t \in Types :
          (\E c \in categories : c.user = u /\ c.name = Trim(n)) =>
              /\ CreateCategoryResult(u, n, t, DefaultColor).status = 400
              /\ CreateCategoryResult(u, n, t, DefaultColor).categories = categories
    /\ \A u \in UserIds, id \in CatIdInputs, b \in CategoryBodies :
          /\ "name" \in DOMAIN b
          /\ \E c \in categories : c.id = id /\ c.user = u /\ c.isActive /\ ~c.isDefault
          /\ \E c \in categories : c.id # id /\ c.user = u /\ c.name = Trim(b.name)
          => /\ UpdateCategoryResult(u, id, b).status = 400
             /\ UpdateCategoryResult(u, id, b).categories = categories

\* a create with a name the user already has is refused with 400
C16_DuplicateCreate ==
    \E u \in UserIds, n \in RawNames :
        /\ \E c \in categories : c.user = u /\ c.name = Trim(n)
        /\ CreateCategoryResult(u, n, "income", DefaultColor).status = 400

\* C17: a request of user a that names a category or a transaction of another
\* user is answered as the same request naming an id no document has, and
\* leaves the collections as they are
C17_OwnershipIsolation ==
    \A a \in UserIds :
        /\ \A id \in CatIdInputs :
              (\E c \in categories : c.id = id /\ c.user # a) =>
                  /\ GetCategoryResult(a, id) = GetCategoryResult(a, UnusedId)
                  /\ DeleteCategoryResult(a, id) = DeleteCategoryResult(a, UnusedId)
                  /\ DeleteCategoryResult(a, id).categories = categories
                  /\ \A b \in CategoryBodies :
                        /\ UpdateCategoryResult(a, id, b) = UpdateCategoryResult(a, UnusedId, b)
                        /\ UpdateCategoryResult(a, id, b).categories = categories
                  /\ \A type \in Types :
                        /\ CreateTransactionResult(a, type, id)
                               = CreateTransactionResult(a, type, UnusedId)
                        /\ CreateTransactionResult(a, type, id).transactions = transactions
                  /\ \A tid \in TxIdInputs, b \in TransactionBodies({id}) :
                        "category" \in DOMAIN b =>
                            /\ UpdateTransactionResult(a, tid, b)
                                   = UpdateTransactionResult(a, tid, [b EXCEPT !.category = UnusedId])
                            /\ UpdateTransactionResult(a, tid, b).transactions = transactions
        /\ \A tid \in TxIdInputs :
              (\E t \in transactions : t.id = tid /\ t.user # a) =>
                  /\ GetTransactionResult(a, tid) = GetTransactionResult(a, UnusedId)
                  /\ DeleteTransactionResult(a, tid) = DeleteTransactionResult(a, UnusedId)
                  /\ DeleteTransactionResult(a, tid).transactions = transactions
                  /\ \A b \in TransactionBodies(CatIdInputs) :
                        /\ UpdateTransactionResult(a, tid, b)
                               = UpdateTransactionResult(a, UnusedId, b)
                        /\ UpdateTransactionResult(a, tid, b).transactions = transactions

\* one user owns a transaction and the other owns an active category
C17_TwoOwners ==
    \E t \in transactions, c \in categories : c.user # t.user /\ c.isActive

\* C18: request-email-change for an address that equals the account's email
\* ignoring case, or that is the email of an account, is answered 400 and
\* stages nothing: the step changes no row and the request goes no further
C18_RequestRefused ==
    /\ [](\A u \in UserIds, raw \in EmailInputs :
            /\ users[u] # NoDoc
            /\ IsEmail(raw)
            /\ \/ ToLower(raw) = ToLower(users[u].email)
               \/ \E v \in UserIds : users[v] # NoDoc /\ users[v].email = ToLower(raw)
            => RequestEmailChangeCheckResult(u, raw).status = 400)
    /\ [][\A p \in ProcIds, u \in UserIds, raw \in EmailInputs :
            /\ users[u] # NoDoc
            /\ IsEmail(raw)
            /\ \/ ToLower(raw) = ToLower(users[u].email)
               \/ \E v \in UserIds : users[v] # NoDoc /\ users[v].email = ToLower(raw)
            /\ RequestEmailChange_Begin(p, u, raw)
            => UNCHANGED vars]_vars

\* the account has moved to a new address, which it may now request again, and
\* its old address in capitals is no longer its own
C18_Moved ==
    /\ users["u1"].email = "c@x.com"
    /\ AllIdle

C20_SummaryServed ==
    \A u \in UserIds :
        Authenticated(u) =>
            ServeGet(u, "/summary") = [handler |-> "getSummary", status |-> 200]

\* the request is served as the lookup of the transaction with id 'summary',
\* while GET /transactions/recent, registered before '/:id', is served by its own handler
C20_ServedAsLookup ==
    \E u \in UserIds :
        /\ Authenticated(u)
        /\ ServeGet(u, "/summary") = [handler |-> "getTransaction", status |-> 500]
        /\ ServeGet(u, "/recent") = [handler |-> "getRecent", status |-> 200]

\* C21: the summary an analytics request answers for a user and a window
\* [startDate, endDate] holds, for each type, the sum, the count and the average
\* of exactly that user's completed transactions dated from startDate up to, but
\* not including, endDate, zeros for a type without one, and net = income.total
\* - expense.total.
C21_SummaryOverHalfOpenWindow ==
    \A p \in ProcIds :
        (procs[p].pc = "respond" /\ "summary" \in DOMAIN procs[p].doc) =>
            LET d == procs[p].doc
                rows(type) == {t \in transactions :
                                  /\ t.user = procs[p].user /\ t.status = "completed"
                                  /\ t.type = type
                                  /\ d.startDate <= t.date /\ t.date < d.endDate}
                entry(type) ==
                    IF rows(type) = {} THEN [total |-> 0, count |-> 0, average |-> Quotient(0, 1)]
                    ELSE [total |-> SumAmounts(rows(type)), count |-> Cardinality(rows(type)),
                          average |-> Quotient(SumAmounts(rows(type)), Cardinality(rows(type)))]
            IN  /\ d.summary.income = entry("income")
                /\ d.summary.expense = entry("expense")
                /\ d.summary.net = entry("income").total - entry("expense").total

\* a dashboard answer whose summary counts a transaction dated on endDate itself
C21_CountsEndDate ==
    \E p \in ProcIds :
        /\ procs[p].pc = "respond" /\ "summary" \in DOMAIN procs[p].doc
        /\ procs[p].doc.summary.income.count = 1
        /\ \A t \in transactions :
               (t.user = procs[p].user /\ t.type = "income") => t.date = procs[p].doc.endDate

RECURSIVE SumPercentages(_)
\* the percentage fields of a category analysis, added up as numbers
SumPercentages(seq) ==
    IF seq = << >> THEN 0 ELSE ToNumber(Head(seq).percentage) + SumPercentages(Tail(seq))

\* C22: the percentage fields of a non-empty category analysis add up to 100
\* within 0.01 per category, and are all 0 when the total amount is 0.
C22_PercentagesSumTo100 ==
    \A p \in ProcIds :
        (procs[p].pc = "respond" /\ "categoryAnalysis" \in DOMAIN procs[p].doc) =>
            LET ca == procs[p].doc.categoryAnalysis
            IN  Len(ca) > 0 =>
                    IF procs[p].doc.totalAmount = 0
                    THEN \A i \in 1..Len(ca) : ToNumber(ca[i].percentage) = 0
                    ELSE Abs(SumPercentages(ca) - 100 * 100) <= Len(ca)

\* an analysis of three categories whose rounded percentages miss 100
C22_ThreeThirds ==
    \E p \in ProcIds :
        /\ procs[p].pc = "respond" /\ "categoryAnalysis" \in DOMAIN procs[p].doc
        /\ Len(procs[p].doc.categoryAnalysis) = 3
        /\ SumPercentages(procs[p].doc.categoryAnalysis) # 100 * 100

\* the entries of a comparison that requests in flight are about to answer
ComparisonEntries ==
    {procs[p].doc[k] : p \in {q \in ProcIds : procs[q].pc = "respond"
                                               /\ "net" \in DOMAIN procs[q].doc},
                       k \in {"income", "expense", "net"}}

\* C23: the change of every comparison entry is 100 when previous is 0 and
\* current is positive, 0 when previous is 0 and current is not positive, and
\* otherwise (current - previous) / previous * 100 rounded to two decimals.
C23_PercentChange ==
    \A e \in ComparisonEntries :
        /\ (e.previous = 0 /\ e.current > 0) => ToNumber(e.change) = 100 * 100
        /\ (e.previous = 0 /\ e.current <= 0) => ToNumber(e.change) = 0
        /\ e.previous # 0 =>
               2 * Abs(ToNumber(e.change) * e.previous - (e.current - e.previous) * 100 * 100)
                   <= Abs(e.previous)

\* a comparison with a zero baseline and with a change that had to be rounded
C23_RoundedAndZeroBase ==
    /\ \E e \in ComparisonEntries : e.previous = 0 /\ e.current > 0
    /\ \E e \in ComparisonEntries :
           /\ e.previous # 0
           /\ ToNumber(e.change) * e.previous # (e.current - e.previous) * 100 * 100

\* C30: in every comparison entry changeType is 'increase' exactly when the
\* reported change is greater than 0, and 'decrease' otherwise.
C30_ChangeTypeAgrees ==
    \A e \in ComparisonEntries :
        /\ e.changeType \in {"increase", "decrease"}
        /\ e.changeType = "increase" <=> ToNumber(e.change) > 0

\* a net that rose from a negative baseline, reported with a negative change
C30_RoseFromNegative ==
    \E e \in ComparisonEntries :
        /\ e.previous < 0 /\ e.current > e.previous
        /\ e.changeType = "increase" /\ ToNumber(e.change) < 0

\* C24: a rollback after a failed send removes only the staging of the request
\* that failed: when another request of the account has staged its address and
\* code since and has answered success, its pendingEmail and code are still
\* stored after the rollback, and its code still verifies.
C24_RollbackSparesOthers ==
    [][\A p \in ProcIds, u \in UserIds, code \in Otps :
            /\ procs[p].pc = "rec_send"
            /\ procs[p].user = u
            /\ \A q \in ProcIds \ {p} : procs[q].pc # "rec_send"
            /\ users[u] # NoDoc
            /\ users[u].pendingEmail # None
            /\ users[u].emailChangeOTP = code
            /\ <<users[u].pendingEmail, code>>
                   # <<procs[p].doc.pendingEmail, procs[p].doc.emailChangeOTP>>
            /\ VerifyEmailChangeCheckResult(u, code).status = 0
            /\ RequestEmailChange_SendFail(p)
            =>
            /\ users'[u].pendingEmail = users[u].pendingEmail
            /\ users'[u].emailChangeOTP = code
            /\ VerifyEmailChangeCheckResult(u, code)'.status = 0]_vars

\* a request still sending while the row holds the address and the code of a
\* later request that has answered
C24_OvertakenWhileSending ==
    \E p \in ProcIds :
        /\ procs[p].pc = "rec_send"
        /\ \A q \in ProcIds \ {p} : procs[q] = Idle
        /\ procs[p].doc.pendingEmail = "c@x.com"
        /\ procs[p].doc.emailChangeOTP = "111111"
        /\ users[procs[p].user].pendingEmail = "d@x.com"
        /\ users[procs[p].user].emailChangeOTP = "222222"
        /\ VerifyEmailChangeCheckResult(procs[p].user, "222222").status = 0

\* C25: when POST /categories/defaults finishes, whatever category requests of
\* the user ran between its check and its insert, the user owns either all 14
\* default categories, each exactly once, or no default category.
C25_SeedAllOrNothing ==
    [][\A p \in ProcIds, u \in UserIds :
            /\ procs[p].pc = "seed_insert"
            /\ procs[p].user = u
            /\ SeedDefaults_Insert(p)
            =>
            LET owned == {c \in categories' : c.user = u /\ c.isDefault}
            IN  \/ owned = {}
                \/ /\ Cardinality(owned) = Len(defaultCategories)
                   /\ \A i \in 1..Len(defaultCategories) :
                          \E c \in owned : c.name = defaultCategories[i].name]_vars

\* a seeding between its check and its insert, and the user has since created
\* a category named like the second default
C25_CreatedInBetween ==
    \E p \in ProcIds :
        /\ procs[p].pc = "seed_insert"
        /\ \E c \in categories :
               c.user = procs[p].user /\ c.name = "Freelance" /\ ~c.isDefault

\* C26: in every state of an account pendingEmail is set if and only if
\* emailChangeOTP and emailChangeOTPExpires are both set.
C26_StagingConsistent ==
    \A u \in UserIds :
        users[u] # NoDoc =>
            (users[u].pendingEmail # None
                <=> (users[u].emailChangeOTP # None /\ users[u].emailChangeOTPExpires # NoExpiry))

\* a row with a code and its expiry stored, and no pending address
C26_CodeWithoutAddress ==
    \E u \in UserIds :
        /\ users[u] # NoDoc
        /\ users[u].pendingEmail = None
        /\ users[u].emailChangeOTP \in Otps
        /\ users[u].emailChangeOTPExpires # NoExpiry
        /\ AllIdle

\* C27: PUT /categories/:id leaves the type, the owner, isDefault and isActive of
\* every category as they were, so the type of a category that transactions
\* reference never changes.
C27_UpdateKeepsFrame ==
    [][categories' # categories =>
          \A u \in UserIds, id \in CatIdInputs, b \in CategoryBodies :
              UpdateCategory(u, id, b) =>
                  \A c \in categories :
                      \E d \in categories' :
                          /\ d.id = c.id
                          /\ d.type = c.type
                          /\ d.user = c.user
                          /\ d.isDefault = c.isDefault
                          /\ d.isActive = c.isActive]_vars

\* an update that will succeed on a category a transaction references, with a
\* body that names another type, another owner and the two flags
C27_BodyNamesFrame ==
    \E u \in UserIds, id \in CatIdInputs, b \in CategoryBodies :
        /\ Authenticated(u)
        /\ {"name", "type", "isActive", "isDefault"} \subseteq DOMAIN b
        /\ UpdateCategoryResult(u, id, b).status = 200
        /\ UpdateCategoryResult(u, id, b).categories # categories
        /\ \E c \in categories : c.id = id /\ c.type # b.type
        /\ \E t \in transactions : t.category = id

\* the paths the profile must not show: tokens and codes, and their expiries
SecretTexts ==
    {"password", "emailVerificationToken", "passwordResetToken", "otpCode",
     "emailChangeOTP", "emailChangeToken", "pendingEmail"}

SecretExpiries ==
    {"emailVerificationExpires", "passwordResetExpires", "otpExpires",
     "emailChangeOTPExpires", "emailChangeTokenExpires"}

\* C28: the user object of GET /users/profile holds neither the password hash,
\* nor a verification, reset, login or email-change token or code, nor the
\* expiry paired with one, nor pendingEmail: whatever values those paths hold,
\* the answer is the same.
C28_ProfileHidesCredentials ==
    \A u \in UserIds :
        Authenticated(u) =>
            LET profile == GetProfileResult(u).user
            IN  /\ \A f \in SecretTexts \cap DOMAIN profile : profile[f] = None
                /\ \A f \in SecretExpiries \cap DOMAIN profile : profile[f] = NoExpiry
                /\ \A c \in CredentialStates :
                       getProfile([f \in DOMAIN users[u] |->
                                      IF f \in DOMAIN c THEN c[f] ELSE users[u][f]]) = profile

\* an account with a verification token issued, and with an address staged
C28_TokenIssued ==
    \E u \in UserIds :
        /\ Authenticated(u)
        /\ users[u].emailVerificationToken \in Tokens
        /\ users[u].pendingEmail # None
        /\ "emailVerificationExpires" \in DOMAIN GetProfileResult(u).user
        /\ "emailVerificationToken" \notin DOMAIN GetProfileResult(u).user

\* C29: every stored transaction has status 'completed': create sets no other
\* status, and an update changes neither the status, nor the type, nor the owner
\* of a transaction.
C29_AlwaysCompleted ==
    /\ [](\A t \in transactions : t.status = "completed")
    /\ [][transactions' # transactions =>
              \A u \in UserIds, id \in TxIdInputs, b \in TransactionBodies(CatIdInputs) :
                  UpdateTransaction(u, id, b) =>
                      \A t \in transactions :
                          \E d \in transactions' :
                              /\ d.id = t.id /\ d.status = t.status
                              /\ d.type = t.type /\ d.user = t.user]_vars

\* an update that will succeed and change a transaction, with a body that
\* names another status, another type and another owner
C29_BodyNamesStatus ==
    \E u \in UserIds, id \in TxIdInputs, b \in TransactionBodies(CatIdInputs) :
        /\ Authenticated(u)
        /\ {"status", "type", "user"} \subseteq DOMAIN b
        /\ b.status = "pending"
        /\ UpdateTransactionResult(u, id, b).status = 200
        /\ UpdateTransactionResult(u, id, b).transactions # transactions
        /\ \E t \in transactions : t.id = id /\ t.type # b.type /\ t.user # b.user

====
